---- MODULE Spec2Model ----
(***************************************************************************)
(* Model of backend/server.py: the car rating routes (get_random_car,      *)
(* vote_for_car, create_car, initialize_cars) over the db.cars collection  *)
(* and the agent routes (chat_with_agent, search_and_summarize) over the   *)
(* module globals search_agent / chat_agent.                               *)
(*                                                                         *)
(* Every handler is an asyncio coroutine: between two awaited store        *)
(* operations other requests run, so a handler is one action per awaited   *)
(* store operation.  Store operations themselves are atomic and are        *)
(* assumed to succeed (the driver is not part of the repository).          *)
(*                                                                         *)
(* hot_percentage is a float with one decimal; it is kept in tenths of a   *)
(* percent (1000 stands for 100.0, 667 for 66.7).                          *)
(* A car's id is a fresh uuid4; here it is the car's index in the store.   *)
(***************************************************************************)
EXTENDS Integers, Sequences, FiniteSets, TLC

\* ------------------------------------------------------------------ bounds
\* concurrent requests in flight
NumReq == 2
\* requests served in one run
MaxRequests == 3
\* car ids a vote may name are 0..MaxVoteId (0 is never a stored id)
MaxVoteId == 2
\* largest tally a store of SpecAgg starts from
MaxTally == 17

\* number of entries of sample_cars
SampleCount == 12

Requests == 1..NumReq
VoteCarIds == 0..MaxVoteId
VoteTypes == {"hot", "not", "bogus"}
AgentTypes == {"chat", "search", "bogus"}
ExecOutcomes == {"ok", "fail", "raise"}

\* cars:         db.cars, the stored documents' tallies, by car id
\* applied:      per car, the update_one calls of "hot" and of "not" votes
\*               applied to it so far (history, not program state)
\* search_agent, chat_agent: the module globals, "None" or "Ready"
\* req:          per request in flight, the handler's position (pc), its
\*               inputs, its locals (car: what find_one returned; seen: the
\*               votes applied to the car when it was read; ops: the store
\*               operations issued) and its response (status, new tallies,
\*               flag: success / initialized, executed: the agent that ran)
\* started:      the requests served so far
VARIABLES cars, applied, search_agent, chat_agent, req, started

vars == <<cars, applied, search_agent, chat_agent, req, started>>

\* ------------------------------------------------------------ pure helpers
\* find_one / aggregate returned nothing
NoCar == [hot_votes |-> -1, not_votes |-> -1, total_votes |-> -1, hot_percentage |-> -1]

\* Car(**car_data): the tallies' defaults
NewCar == [hot_votes |-> 0, not_votes |-> 0, total_votes |-> 0, hot_percentage |-> 0]

\* a mutant of Round1: the decimals after the first are cut off
Round1Trunc(num, den) == (1000 * num) \div den

\* round(num / den * 100, 1), in tenths: the nearest tenth, a tie going to
\* the even one (Python's round on the double num/den*100, which is exact
\* at every tie with den < 80)
Round1(num, den) ==
    LET q == (1000 * num) \div den
        rem == (1000 * num) % den
    IN  IF 2 * rem < den THEN q
        ELSE IF 2 * rem > den THEN q + 1
        ELSE IF q % 2 = 0 THEN q ELSE q + 1

\* a mutant of ValidVoteType: the check is missing
ValidVoteTypeAny(vote_type) == TRUE

\* vote_request.vote_type in ["hot", "not"]
ValidVoteType(vote_type) == vote_type \in {"hot", "not"}

\* a mutant of VoteAggregator: the else branch also counts a hot vote
VoteAggregatorBothHot(car, vote_type) ==
    LET new_hot_votes == car.hot_votes + 1
        new_not_votes == IF vote_type = "hot" THEN car.not_votes ELSE car.not_votes + 1
        new_total_votes == new_hot_votes + new_not_votes
    IN  [hot_votes |-> new_hot_votes, not_votes |-> new_not_votes,
         total_votes |-> new_total_votes,
         hot_percentage |-> IF new_total_votes > 0
                            THEN Round1(new_hot_votes, new_total_votes) ELSE 0]

\* the new tallies vote_for_car computes from the car it read
VoteAggregator(car, vote_type) ==
    LET new_hot_votes == IF vote_type = "hot" THEN car.hot_votes + 1 ELSE car.hot_votes
        new_not_votes == IF vote_type = "hot" THEN car.not_votes ELSE car.not_votes + 1
        new_total_votes == new_hot_votes + new_not_votes
    IN  [hot_votes |-> new_hot_votes, not_votes |-> new_not_votes,
         total_votes |-> new_total_votes,
         hot_percentage |-> IF new_total_votes > 0
                            THEN Round1(new_hot_votes, new_total_votes) ELSE 0]

\* a mutant of UpdateOne: $set leaves total_votes out
UpdateOnePartial(doc, new) ==
    [doc EXCEPT !.hot_votes = new.hot_votes, !.not_votes = new.not_votes,
                !.hot_percentage = new.hot_percentage]

\* update_one's $set: the four fields of the stored document are replaced
UpdateOne(doc, new) ==
    [doc EXCEPT !.hot_votes = new.hot_votes, !.not_votes = new.not_votes,
                !.total_votes = new.total_votes,
                !.hot_percentage = new.hot_percentage]

\* a mutant of StoredAfterVote: the tallies are recomputed from the stored
\* document at the time of the write (an atomic increment)
StoredAfterVoteInc(doc, car, vote_type) == UpdateOne(doc, VoteAggregator(doc, vote_type))

\* the document update_one leaves in the store: the tallies computed from
\* the car that find_one returned earlier, whatever the store holds now
StoredAfterVote(doc, car, vote_type) == UpdateOne(doc, VoteAggregator(car, vote_type))

\* a mutant of VoteHTTPException: the HTTPException falls into the generic
\* handler
VoteHTTPExceptionSwallowed(code) == 500

\* vote_for_car: except HTTPException: raise
VoteHTTPException(code) == code

\* get_random_car: its only handler is except Exception, which also catches
\* the HTTPException raised in the try block and raises a 500 in its place
RandomCarException(code) == 500

\* find_one({"id": car_id})
FindOne(store, car_id) == IF car_id \in DOMAIN store THEN store[car_id] ELSE NoCar

\* a request slot with no request in it
IdleReq ==
    [op |-> "none", pc |-> "idle", car_id |-> 0, vote_type |-> "none",
     car |-> NoCar, new |-> NoCar, seen |-> 0, ops |-> 0, status |-> 0,
     flag |-> FALSE, agent_type |-> "none", executed |-> "none"]

Free(r) == req[r].pc \in {"idle", "done"} /\ started < MaxRequests

\* ------------------------------------------------------------------- Init
Init ==
    /\ cars = <<>>
    /\ applied = <<>>
    /\ search_agent = "None"
    /\ chat_agent = "None"
    /\ req = [r \in Requests |-> IdleReq]
    /\ started = 0

\* ---------------------------------------------------------------- actions
\* GET /cars/random: one aggregate ($sample) and the response
GetRandomCar(r) ==
    /\ Free(r)
    /\ started' = started + 1
    /\ IF cars = <<>>
       THEN req' = [req EXCEPT ![r] = [IdleReq EXCEPT !.op = "random", !.pc = "done",
                                          !.ops = 1,
                                          !.status = RandomCarException(404)]]
       ELSE \E i \in DOMAIN cars :
                req' = [req EXCEPT ![r] = [IdleReq EXCEPT !.op = "random", !.pc = "done",
                                              !.ops = 1, !.car_id = i, !.car = cars[i],
                                              !.status = 200]]
    /\ UNCHANGED <<cars, applied, search_agent, chat_agent>>

\* POST /cars/{car_id}/vote up to its first await: the vote_type check
VoteBegin(r, car_id, vote_type) ==
    /\ Free(r)
    /\ started' = started + 1
    /\ req' = [req EXCEPT ![r] =
                 IF ValidVoteType(vote_type)
                 THEN [IdleReq EXCEPT !.op = "vote", !.pc = "find", !.car_id = car_id,
                                      !.vote_type = vote_type]
                 ELSE [IdleReq EXCEPT !.op = "vote", !.pc = "done", !.car_id = car_id,
                                      !.vote_type = vote_type,
                                      !.status = VoteHTTPException(400)]]
    /\ UNCHANGED <<cars, applied, search_agent, chat_agent>>

\* await db.cars.find_one, the 404, and the new tallies computed from the car
VoteFind(r) ==
    /\ req[r].op = "vote" /\ req[r].pc = "find"
    /\ LET car == FindOne(cars, req[r].car_id)
       IN  req' = [req EXCEPT ![r] =
                     IF car = NoCar
                     THEN [@ EXCEPT !.pc = "done", !.ops = @ + 1,
                                    !.status = VoteHTTPException(404)]
                     ELSE [@ EXCEPT !.pc = "update", !.ops = @ + 1, !.car = car,
                                    !.seen = applied[req[r].car_id].hot
                                             + applied[req[r].car_id].not]]
    /\ UNCHANGED <<cars, applied, search_agent, chat_agent, started>>

\* await db.cars.update_one and the VoteResponse
VoteUpdate(r) ==
    /\ req[r].op = "vote" /\ req[r].pc = "update"
    /\ LET id == req[r].car_id
           vt == req[r].vote_type
       IN  /\ cars' = [cars EXCEPT ![id] = StoredAfterVote(@, req[r].car, vt)]
           /\ applied' = [applied EXCEPT ![id] =
                            IF vt = "hot" THEN [@ EXCEPT !.hot = @ + 1]
                                          ELSE [@ EXCEPT !.not = @ + 1]]
           /\ req' = [req EXCEPT ![r] =
                        [@ EXCEPT !.pc = "done", !.ops = @ + 1, !.status = 200,
                                  !.flag = TRUE,
                                  !.new = VoteAggregator(req[r].car, vt)]]
    /\ UNCHANGED <<search_agent, chat_agent, started>>

\* POST /cars: one insert_one of a Car with default tallies
CreateCar(r) ==
    /\ Free(r)
    /\ started' = started + 1
    /\ cars' = Append(cars, NewCar)
    /\ applied' = Append(applied, [hot |-> 0, not |-> 0])
    /\ req' = [req EXCEPT ![r] = [IdleReq EXCEPT !.op = "create", !.pc = "done",
                                     !.ops = 1, !.car_id = Len(cars) + 1,
                                     !.car = NewCar, !.status = 200]]
    /\ UNCHANGED <<search_agent, chat_agent>>

\* POST /cars/initialize up to insert_many: count_documents and the early return
InitializeCount(r) ==
    /\ Free(r)
    /\ started' = started + 1
    /\ LET existing_count == Len(cars)
       IN  req' = [req EXCEPT ![r] =
                     IF existing_count > 0
                     THEN [IdleReq EXCEPT !.op = "init", !.pc = "done", !.ops = 1,
                                          !.seen = existing_count, !.status = 200,
                                          !.flag = FALSE]
                     ELSE [IdleReq EXCEPT !.op = "init", !.pc = "insert", !.ops = 1,
                                          !.seen = existing_count]]
    /\ UNCHANGED <<cars, applied, search_agent, chat_agent>>

\* await db.cars.insert_many(cars_to_insert) and the response
InitializeInsert(r) ==
    /\ req[r].op = "init" /\ req[r].pc = "insert"
    /\ cars' = cars \o [i \in 1..SampleCount |-> NewCar]
    /\ applied' = applied \o [i \in 1..SampleCount |-> [hot |-> 0, not |-> 0]]
    /\ req' = [req EXCEPT ![r] = [@ EXCEPT !.pc = "done", !.ops = @ + 1,
                                           !.status = 200, !.flag = TRUE]]
    /\ UNCHANGED <<search_agent, chat_agent, started>>

\* POST /chat.  ctorOk: the agent's constructor returns (it raises otherwise);
\* exec: what agent.execute does.  Every exception ends in the degraded
\* ChatResponse(success=False).
ChatWithAgent(r, agent_type, ctorOk, exec) ==
    /\ Free(r)
    /\ started' = started + 1
    /\ LET initSearch == agent_type = "search" /\ search_agent = "None"
           initChat == ~initSearch /\ agent_type = "chat" /\ chat_agent = "None"
           raised == (initSearch \/ initChat) /\ ~ctorOk
           search1 == IF initSearch /\ ctorOk THEN "Ready" ELSE search_agent
           chat1 == IF initChat /\ ctorOk THEN "Ready" ELSE chat_agent
           agent == IF agent_type = "search" THEN search1 ELSE chat1
           executed == IF raised \/ agent = "None" THEN "none"
                       ELSE IF agent_type = "search" THEN "search" ELSE "chat"
       IN  /\ search_agent' = search1
           /\ chat_agent' = chat1
           /\ req' = [req EXCEPT ![r] =
                        [IdleReq EXCEPT !.op = "chat", !.pc = "done", !.status = 200,
                                        !.agent_type = agent_type,
                                        !.executed = executed,
                                        !.flag = (executed # "none" /\ exec = "ok")]]
    /\ UNCHANGED <<cars, applied>>

\* POST /search
SearchAndSummarize(r, ctorOk, exec) ==
    /\ Free(r)
    /\ started' = started + 1
    /\ LET raised == search_agent = "None" /\ ~ctorOk
           search1 == IF search_agent = "None" /\ ctorOk THEN "Ready" ELSE search_agent
           executed == IF raised THEN "none" ELSE "search"
       IN  /\ search_agent' = search1
           /\ req' = [req EXCEPT ![r] =
                        [IdleReq EXCEPT !.op = "search", !.pc = "done", !.status = 200,
                                        !.agent_type = "search",
                                        !.executed = executed,
                                        !.flag = (executed # "none" /\ exec = "ok")]]
    /\ UNCHANGED <<cars, applied, chat_agent>>

Next ==
    \E r \in Requests :
        \/ GetRandomCar(r)
        \/ \E car_id \in VoteCarIds, vote_type \in VoteTypes : VoteBegin(r, car_id, vote_type)
        \/ VoteFind(r)
        \/ VoteUpdate(r)
        \/ CreateCar(r)
        \/ InitializeCount(r)
        \/ InitializeInsert(r)
        \/ \E agent_type \in AgentTypes, ctorOk \in BOOLEAN, exec \in ExecOutcomes :
               ChatWithAgent(r, agent_type, ctorOk, exec)
        \/ \E ctorOk \in BOOLEAN, exec \in ExecOutcomes : SearchAndSummarize(r, ctorOk, exec)

Spec == Init /\ [][Next]_vars

\* ------------------------------------------------- the vote aggregator alone
\* the car that h "hot" and n "not" votes, served one after the other, leave
TallyCar(h, n) ==
    [hot_votes |-> h, not_votes |-> n, total_votes |-> h + n,
     hot_percentage |-> IF h + n > 0 THEN Round1(h, h + n) ELSE 0]

\* a store that is empty, or holds one car after up to MaxTally votes of
\* either kind; two more requests are then served
InitAgg ==
    /\ \E h \in 0..MaxTally, n \in 0..MaxTally :
          \/ /\ h = 0 /\ n = 0
             /\ cars = <<>>
             /\ applied = <<>>
          \/ /\ h + n > 0
             /\ cars = <<TallyCar(h, n)>>
             /\ applied = <<[hot |-> h, not |-> n]>>
    /\ search_agent = "None"
    /\ chat_agent = "None"
    /\ req = [r \in Requests |-> IdleReq]
    /\ started = MaxRequests - 2

SpecAgg == InitAgg /\ [][Next]_vars

\* ------------------------------------------------------------------ claims
Abs(x) == IF x < 0 THEN -x ELSE x

\* p tenths of a percent is 100 * h / t rounded to one decimal place: no
\* other tenth is nearer to it
NearestTenth(p, h, t) == 2 * Abs(p * t - 1000 * h) <= t

VoteDone(r, status) == req[r].op = "vote" /\ req[r].pc = "done" /\ req[r].status = status

AppliedTotal(i) == applied[i].hot + applied[i].not

\* C1: get_random_car on an empty cars collection answers 404 and no other
\* status.
C1_EmptyStoreNotFound ==
    \A r \in Requests :
        (req[r].op = "random" /\ req[r].pc = "done" /\ req[r].car = NoCar)
            => req[r].status = 404

\* C2: in every reachable state every stored car has
\* total_votes = hot_votes + not_votes.
C2_TotalIsSum ==
    \A i \in DOMAIN cars : cars[i].total_votes = cars[i].hot_votes + cars[i].not_votes

C2_Witness ==
    \E i \in DOMAIN cars :
        cars[i].hot_votes >= 1 /\ cars[i].not_votes >= 1 /\ cars[i].total_votes = 2

C4_Monotone ==
    [][\A i \in DOMAIN cars :
          /\ i \in DOMAIN cars'
          /\ cars'[i].hot_votes >= cars[i].hot_votes
          /\ cars'[i].not_votes >= cars[i].not_votes]_vars

\* two votes on one car that read the same state of it, both answered 200,
\* and the only two applied to the car since
LostUpdatePair(r1, r2) ==
    /\ r1 # r2
    /\ VoteDone(r1, 200) /\ VoteDone(r2, 200)
    /\ req[r1].car_id = req[r2].car_id
    /\ req[r1].seen = req[r2].seen
    /\ AppliedTotal(req[r1].car_id) = req[r1].seen + 2

\* C5: two vote requests on the same car that both read the same pre-vote
\* tallies and both complete leave total_votes grown by 1 only: one
\* increment is lost.
C5_LostUpdate ==
    \A r1, r2 \in Requests :
        LostUpdatePair(r1, r2) =>
            /\ req[r1].car = req[r2].car
            /\ cars[req[r1].car_id].total_votes = req[r1].car.total_votes + 1

C5_Witness == \E r1, r2 \in Requests : LostUpdatePair(r1, r2)

\* C6: of any two initialize_cars calls on an empty store, overlapping or
\* not, at most one inserts the sample cars and returns initialized=true.
C6_SeedOnce ==
    Cardinality({r \in Requests :
                    req[r].op = "init" /\ req[r].pc = "done" /\ req[r].flag}) <= 1

\* C7: a vote whose vote_type is neither "hot" nor "not" is answered 400,
\* whatever its car_id, before any store operation: nothing is read and the
\* store is unchanged.
C7_InvalidVote ==
    [][\A r \in Requests :
          (req'[r] # req[r] /\ req'[r].op = "vote"
             /\ req'[r].vote_type \notin {"hot", "not"})
          => /\ req'[r].pc = "done"
             /\ req'[r].status = 400
             /\ req'[r].ops = 0
             /\ req'[r].car = NoCar
             /\ cars' = cars]_vars

C7_Witness ==
    \E r \in Requests :
        /\ VoteDone(r, 400)
        /\ req[r].vote_type = "bogus"
        /\ req[r].car_id \in DOMAIN cars

\* C8: a vote with a valid vote_type on a car_id that matches no stored car
\* is answered 404 after the one read, and no car's tallies change.
C8_MissingCar ==
    [][\A r \in Requests :
          (req[r].op = "vote" /\ req[r].pc = "find" /\ req'[r] # req[r]
             /\ req[r].car_id \notin DOMAIN cars)
          => /\ req'[r].pc = "done"
             /\ req'[r].status = 404
             /\ req'[r].ops = 1
             /\ cars' = cars]_vars

C8_Witness ==
    \E r \in Requests :
        /\ VoteDone(r, 404)
        /\ req[r].vote_type \in {"hot", "not"}
        /\ cars # <<>>

\* C9: a chat request whose agent_type is neither "search" nor "chat" is
\* executed on the chat agent, whatever requests came before it.
C9_BogusRunsOnChat ==
    \A r \in Requests :
        (req[r].op = "chat" /\ req[r].pc = "done"
           /\ req[r].agent_type \notin {"search", "chat"})
            => req[r].executed = "chat"

\* C10: no car's hot_votes exceeds the "hot" votes applied to it, nor its
\* not_votes the "not" votes applied, nor its total_votes their sum.
C10_NeverOverCounted ==
    \A i \in DOMAIN cars :
        /\ cars[i].hot_votes <= applied[i].hot
        /\ cars[i].not_votes <= applied[i].not
        /\ cars[i].total_votes <= AppliedTotal(i)

\* a hot vote was applied and a stale write has erased it
C10_Witness ==
    \E i \in DOMAIN cars : applied[i].hot >= 1 /\ cars[i].hot_votes = 0

====
